---------------------------- MODULE Spec2Model ----------------------------
(***************************************************************************)
(* A model of the Wizard card-game environment, src/ml/wizard_env.py:      *)
(* class Card and class WizardEnv (reset, step and the helpers they call). *)
(*                                                                         *)
(* Spec      the environment driven by reset() and step(action) calls;     *)
(*           every random draw (shuffle, opponent bid, opponent play) is   *)
(*           a nondeterministic choice.                                    *)
(* SpecEval  _evaluate_trick applied to complete tricks drawn from a       *)
(*           bounded set of cards, leaders and trump cards.                *)
(* SpecPlay  _is_valid_play applied to hands and partial tricks drawn      *)
(*           from a bounded set of cards.                                  *)
(***************************************************************************)
EXTENDS Integers, Sequences, FiniteSets, Bags, TLC

(***************************************************************************)
(* Program constants.                                                      *)
(***************************************************************************)
NUM_PLAYERS == 4
DECK_SIZE == 60
NUM_SUITS == 4
MAX_ROUND == DECK_SIZE \div NUM_PLAYERS

\* CardValue: JESTER = 0, ONE..THIRTEEN = 1..13, WIZARD = 14
JESTER == 0
THIRTEEN == 13
WIZARD == 14

(***************************************************************************)
(* Bounds of the model.                                                    *)
(***************************************************************************)
\* seeds of the random source that random.shuffle draws from: 0..MaxSeed
MaxSeed == 0
\* step is explored in rounds 1..MaxRoundPlayed
MaxRoundPlayed == 2
\* SpecEval and SpecPlay draw numeric cards of values 1..MaxEvalValue ...
MaxEvalValue == 2
\* ... and numeric cards and Wizards of suits 0..MaxEvalSuit
MaxEvalSuit == 1
\* SpecPlay draws hands of 1..MaxPlayHand cards
MaxPlayHand == 2
\* SpecPlay draws tricks of 0..MaxPlayTrick cards
MaxPlayTrick == 2
\* SpecTwin steps its two instances in the rounds 1..MaxTwinRound
MaxTwinRound == 1
\* SpecGame explores every random draw and every accepted action in the
\* rounds 1..MaxFreeRound, and one of them in each later round
MaxFreeRound == 0

Seats == 0 .. (NUM_PLAYERS - 1)
Suits == 0 .. (NUM_SUITS - 1)

(***************************************************************************)
(* class Card                                                              *)
(***************************************************************************)
Card(value, suit) == [value |-> value, suit |-> suit]

\* self.trump_card = None
None == [value |-> -1, suit |-> -1]

IsSpecial(card) == card.value = WIZARD \/ card.value = JESTER

\* to_vector with the Jesters at 52..55 and the Wizards at 56..59
to_vector_JestersFirst(card) ==
    IF card.value = WIZARD THEN 56 + card.suit
    ELSE IF card.value = JESTER THEN 52 + card.suit
    ELSE (card.suit * 13) + (card.value - 1)

\* Card.to_vector: the slot of the one-hot vector that is set
to_vector(card) ==
    IF card.value = WIZARD THEN 52 + card.suit
    ELSE IF card.value = JESTER THEN 56 + card.suit
    ELSE (card.suit * 13) + (card.value - 1)

\* Card.from_vector_idx
from_vector_idx(vector_idx) ==
    IF vector_idx < 52 THEN Card((vector_idx % 13) + 1, vector_idx \div 13)
    ELSE IF vector_idx < 56 THEN Card(WIZARD, vector_idx - 52)
    ELSE Card(JESTER, vector_idx - 56)

(***************************************************************************)
(* Sequence helpers (list.pop(i), list.remove(x), sum)                     *)
(***************************************************************************)
Range(s) == {s[i] : i \in 1 .. Len(s)}

RemoveAt(s, i) == SubSeq(s, 1, i - 1) \o SubSeq(s, i + 1, Len(s))

\* index of the first occurrence of x in s, 0 when absent
IndexOf(s, x) ==
    IF \E i \in 1 .. Len(s) : s[i] = x
    THEN CHOOSE i \in 1 .. Len(s) : s[i] = x /\ \A j \in 1 .. (i - 1) : s[j] # x
    ELSE 0

RECURSIVE SumSeats(_, _)
SumSeats(f, n) == IF n < 0 THEN 0 ELSE f[n] + SumSeats(f, n - 1)

\* np.sum / sum over a per-seat vector
Sum(f) == SumSeats(f, NUM_PLAYERS - 1)

Abs(x) == IF x < 0 THEN -x ELSE x

(***************************************************************************)
(* WizardEnv._create_deck                                                  *)
(***************************************************************************)
SuitCards(suit) ==
    [i \in 1 .. (THIRTEEN + 2) |->
        IF i <= THIRTEEN THEN Card(i, suit)
        ELSE IF i = THIRTEEN + 1 THEN Card(WIZARD, suit)
        ELSE Card(JESTER, suit)]

_create_deck == SuitCards(0) \o SuitCards(1) \o SuitCards(2) \o SuitCards(3)

(***************************************************************************)
(* random.shuffle(deck): a Fisher-Yates shuffle, for i = n-1 down to 1     *)
(* swap x[i] with x[j], j drawn from 0..i.  The draws come from a stream   *)
(* of a linear congruential generator; the model explores the streams      *)
(* started at 937 + seed for the seeds 0..MaxSeed.                         *)
(***************************************************************************)
NextRandom(r) == ((r * 75) + 74) % 65537

Swap(x, i, j) == [x EXCEPT ![i] = x[j], ![j] = x[i]]

RECURSIVE ShuffleFrom(_, _, _)
ShuffleFrom(x, i, r) ==
    IF i <= 1 THEN x
    ELSE ShuffleFrom(Swap(x, i, (r % i) + 1), i - 1, NextRandom(r))

shuffle(x, seed) == ShuffleFrom(x, Len(x), NextRandom(seed + 937))

Seeds == 0 .. MaxSeed

\* the seeds of two instances, whose shuffles need not draw the same stream
TwinSeeds == 0 .. (MaxSeed + 1)

ShuffledDeck == [seed \in TwinSeeds |-> shuffle(_create_deck, seed)]


(***************************************************************************)
(* The state of a WizardEnv instance.  The fields of self.state keep their *)
(* keys; vectors over the 60 card slots are kept as the bag (a slot's      *)
(* count) or the set (a mask's marked slots) of their non-zero slots.      *)
(***************************************************************************)
VARIABLES
    hands,                  \* self.hands: per seat, the list of cards held
    trump_card,             \* self.trump_card, a card or None
    deck,                   \* what _deal_cards left in its local deck
    cards_played_in_trick,  \* self.cards_played_in_trick, in play order
    cards_played_in_round,  \* state["cards_played_in_round"], a bag of slots
    player_bids,            \* state["player_bids"]
    player_tricks,          \* state["player_tricks"]
    player_scores,          \* state["player_scores"]
    round_number,           \* state["round_number"]
    phase,                  \* state["phase"]: 0 bidding, 1 playing
    lead_suit,              \* state["lead_suit"]
    position_in_trick,      \* state["position_in_trick"]
    valid_actions,          \* state["valid_actions"], the marked slots
    round_starter,          \* self.round_starter
    trick_leader,           \* self.trick_leader
    bid_placed,             \* history: the seats assigned a bid this round
    winner,                 \* history: what _evaluate_trick last returned
    trick_log,              \* history: the turns taken in the current trick
    evaluated,              \* history: the trick _evaluate_trick last saw
    call,                   \* the last call: its kind, action and outcome
    checked,                \* SpecPlay: the last _is_valid_play query
    free_rounds,            \* the rounds whose random draws are all explored
    twin,                   \* SpecTwin: a second instance and its last call
    coded                   \* SpecCard: an index, its card and the card's slot

vars == <<hands, trump_card, deck, cards_played_in_trick, cards_played_in_round,
          player_bids, player_tricks, player_scores, round_number, phase,
          lead_suit, position_in_trick, valid_actions, round_starter,
          trick_leader, bid_placed, winner, trick_log, evaluated, call,
          checked, free_rounds, twin, coded>>

\* the environment as one value, as the methods below read and change it
Env == [hands |-> hands, trump_card |-> trump_card, deck |-> deck,
        cards_played_in_trick |-> cards_played_in_trick,
        cards_played_in_round |-> cards_played_in_round,
        player_bids |-> player_bids, player_tricks |-> player_tricks,
        player_scores |-> player_scores, round_number |-> round_number,
        phase |-> phase, lead_suit |-> lead_suit,
        position_in_trick |-> position_in_trick,
        valid_actions |-> valid_actions, round_starter |-> round_starter,
        trick_leader |-> trick_leader, bid_placed |-> bid_placed,
        winner |-> winner, trick_log |-> trick_log, evaluated |-> evaluated,
        free_rounds |-> free_rounds]

\* the variables take the fields of the environment value e
Becomes(e) ==
    /\ hands' = e.hands
    /\ trump_card' = e.trump_card
    /\ deck' = e.deck
    /\ cards_played_in_trick' = e.cards_played_in_trick
    /\ cards_played_in_round' = e.cards_played_in_round
    /\ player_bids' = e.player_bids
    /\ player_tricks' = e.player_tricks
    /\ player_scores' = e.player_scores
    /\ round_number' = e.round_number
    /\ phase' = e.phase
    /\ lead_suit' = e.lead_suit
    /\ position_in_trick' = e.position_in_trick
    /\ valid_actions' = e.valid_actions
    /\ round_starter' = e.round_starter
    /\ trick_leader' = e.trick_leader
    /\ bid_placed' = e.bid_placed
    /\ winner' = e.winner
    /\ trick_log' = e.trick_log
    /\ evaluated' = e.evaluated
    /\ free_rounds' = e.free_rounds

NoSeat == -1
Zeros == [i \in Seats |-> 0]
NoCall == [kind |-> "none", action |-> -1, raised |-> FALSE, reward |-> 0,
           done |-> FALSE]
NoCheck == [card |-> None, player |-> NoSeat, result |-> FALSE]
NoTwin == [env |-> <<>>, call |-> NoCall]
\* no trick evaluated yet
NoTrick == [log |-> <<>>, leader |-> NoSeat, size |-> 0]
\* a turn of the trick: the seat whose turn it was, whether it played a
\* card, and whether that card was in its hand and passed _is_valid_play
Turn(seat, played, legal) == [seat |-> seat, played |-> played, legal |-> legal]
NoCode == [idx |-> -1, card |-> None, slot |-> -1]

(***************************************************************************)
(* The random draws: random.shuffle(deck) and self.np_random.choice(xs).   *)
(* In the rounds 1..free_rounds of a game the model explores every outcome *)
(* of a draw: the shuffle of every seed, every element of the list.  In    *)
(* later rounds it explores one outcome: the shuffle of seed 0, the first  *)
(* element of the list.  AnyDraw leaves every draw of a game free.         *)
(***************************************************************************)
AnyDraw == MAX_ROUND + 1

\* the seeds explored for the shuffle that deals the given round
ShuffleSeeds(round, free) == IF round <= free THEN Seeds ELSE {0}

choice(e, xs) ==
    IF e.round_number <= e.free_rounds THEN Range(xs) ELSE {xs[1]}

\* list(range(n))
range(n) == [i \in 1 .. n |-> i - 1]

\* xs.remove(x), for a list without repetitions
remove(xs, x) == SelectSeq(xs, LAMBDA y : y # x)

(***************************************************************************)
(* WizardEnv._deal_cards                                                   *)
(***************************************************************************)
\* for _ in range(round_number): for player in range(NUM_PLAYERS):
\*     if deck: self.hands[player].append(deck.pop())
\* k counts the iterations of the inner body; hd is <<hands, deck>>
RECURSIVE DealLoop(_, _, _)
DealLoop(hd, k, n) ==
    IF k >= n THEN hd
    ELSE LET h == hd[1]
             d == hd[2]
             player == k % NUM_PLAYERS
         IN  IF Len(d) > 0
             THEN DealLoop(<<[h EXCEPT ![player] = Append(@, d[Len(d)])],
                             SubSeq(d, 1, Len(d) - 1)>>, k + 1, n)
             ELSE DealLoop(hd, k + 1, n)

_deal_cards(e, seed) ==
    LET dealt == DealLoop(<<[p \in Seats |-> <<>>], ShuffledDeck[seed]>>, 0,
                          e.round_number * NUM_PLAYERS)
        d == dealt[2]
    IN  [e EXCEPT !.hands = dealt[1],
                  !.trump_card = IF Len(d) > 0 THEN d[Len(d)] ELSE None,
                  !.deck = IF Len(d) > 0 THEN SubSeq(d, 1, Len(d) - 1) ELSE d]

(***************************************************************************)
(* WizardEnv._get_valid_bids                                               *)
(***************************************************************************)
count_nonzero(f) == Cardinality({i \in Seats : f[i] # 0})

_get_valid_bids(e) ==
    LET valid_bids == 0 .. e.round_number
        num_bids == count_nonzero(e.player_bids)
        forbidden_bid == e.round_number - Sum(e.player_bids)
    IN  IF /\ num_bids = NUM_PLAYERS - 1
           /\ forbidden_bid >= 0
           /\ forbidden_bid <= e.round_number
        THEN valid_bids \ {forbidden_bid}
        ELSE valid_bids

(***************************************************************************)
(* WizardEnv._is_valid_play                                                *)
(***************************************************************************)
\* the suit of the first card in the trick that is no Jester and no Wizard,
\* None's suit when there is none
FindLeadSuit(trick) ==
    IF \E i \in 1 .. Len(trick) : ~IsSpecial(trick[i])
    THEN trick[CHOOSE i \in 1 .. Len(trick) :
                    /\ ~IsSpecial(trick[i])
                    /\ \A j \in 1 .. (i - 1) : IsSpecial(trick[j])].suit
    ELSE None.suit

\* for c in self.hands[player_idx]: if c.suit == lead_suit
HasLeadSuit(hand, ls) == \E i \in 1 .. Len(hand) : hand[i].suit = ls

IsValidPlayIn(hand, trick, card) ==
    IF card \notin Range(hand) THEN FALSE
    ELSE IF Len(trick) = 0 THEN TRUE
    ELSE IF IsSpecial(card) THEN TRUE
    ELSE LET ls == FindLeadSuit(trick)
         IN  IF ls = None.suit THEN TRUE
             ELSE IF HasLeadSuit(hand, ls) THEN card.suit = ls
             ELSE TRUE

_is_valid_play(e, card, player_idx) ==
    IsValidPlayIn(e.hands[player_idx], e.cards_played_in_trick, card)

(***************************************************************************)
(* WizardEnv._update_valid_actions                                         *)
(***************************************************************************)
\* _update_valid_actions marking the bids in the Playing phase too
_update_valid_actions_BidsAlways(e) ==
    [e EXCEPT !.valid_actions = _get_valid_bids(e)]

_update_valid_actions(e) ==
    [e EXCEPT !.valid_actions =
        IF e.phase = 0 THEN _get_valid_bids(e)
        ELSE {to_vector(c) : c \in {x \in Range(e.hands[0]) :
                                        _is_valid_play(e, x, 0)}}]

(***************************************************************************)
(* WizardEnv._process_bid and WizardEnv._process_play (the agent, seat 0)  *)
(***************************************************************************)
\* raise ValueError(f"Invalid bid ...")
BidRaises(e, bid) == bid \notin _get_valid_bids(e)

_process_bid(e, bid) ==
    [e EXCEPT !.player_bids[0] = bid, !.bid_placed = @ \cup {0}]

\* WizardEnv._vector_idx_to_hand_idx: the index in hands[0] of the card that
\* the slot decodes to, 0 for the code's None
_vector_idx_to_hand_idx(e, vector_idx) ==
    IndexOf(e.hands[0], from_vector_idx(vector_idx))

\* raise ValueError("Cannot play card during bidding phase") or
\* raise ValueError(f"Invalid card vector index {action}")
PlayRaises(e, action) ==
    e.phase # 1 \/ _vector_idx_to_hand_idx(e, action) = 0

_process_play(e, action) ==
    LET hand_idx == _vector_idx_to_hand_idx(e, action)
        card == e.hands[0][hand_idx]
        trick == Append(e.cards_played_in_trick, card)
    IN  [e EXCEPT !.hands[0] = RemoveAt(@, hand_idx),
                  !.trick_log = Append(@, Turn(0, TRUE,
                                               _is_valid_play(e, card, 0))),
                  !.cards_played_in_trick = trick,
                  !.cards_played_in_round = @ (+) SetToBag({to_vector(card)}),
                  !.lead_suit = IF Len(trick) = 1
                                THEN (IF ~IsSpecial(card) THEN card.suit
                                      ELSE NUM_SUITS)
                                ELSE @]

(***************************************************************************)
(* WizardEnv._simulate_play: the states a random legal play of seat        *)
(* player_idx can lead to                                                  *)
(***************************************************************************)
\* PlayCard with the round's pile left as it was
PlayCardUnrecorded(e, player_idx, card) ==
    [e EXCEPT !.lead_suit = IF @ = NUM_SUITS /\ ~IsSpecial(card)
                            THEN card.suit ELSE @,
              !.hands[player_idx] = RemoveAt(@, IndexOf(@, card)),
              !.trick_log = Append(@, Turn(player_idx, TRUE,
                                           _is_valid_play(e, card, player_idx))),
              !.cards_played_in_trick = Append(@, card)]

PlayCard(e, player_idx, card) ==
    [e EXCEPT !.lead_suit = IF @ = NUM_SUITS /\ ~IsSpecial(card)
                            THEN card.suit ELSE @,
              !.hands[player_idx] = RemoveAt(@, IndexOf(@, card)),
              !.trick_log = Append(@, Turn(player_idx, TRUE,
                                           _is_valid_play(e, card, player_idx))),
              !.cards_played_in_trick = Append(@, card),
              !.cards_played_in_round = @ (+) SetToBag({to_vector(card)})]

\* _simulate_play with the card drawn from the whole hand
_simulate_play_AnyCard(e, player_idx) ==
    IF e.hands[player_idx] = <<>>
    THEN {[e EXCEPT !.trick_log = Append(@, Turn(player_idx, FALSE, FALSE))]}
    ELSE {PlayCard(e, player_idx, card) :
            card \in choice(e, e.hands[player_idx])}

_simulate_play(e, player_idx) ==
    LET valid_cards == SelectSeq(e.hands[player_idx],
                                 LAMBDA c : _is_valid_play(e, c, player_idx))
    IN  IF valid_cards = <<>>
        THEN {[e EXCEPT !.trick_log = Append(@, Turn(player_idx, FALSE, FALSE))]}
        ELSE {PlayCard(e, player_idx, card) : card \in choice(e, valid_cards)}

\* _get_next_player going round the table the other way
_get_next_player_Reversed(current_player) ==
    (current_player + (NUM_PLAYERS - 1)) % NUM_PLAYERS

_get_next_player(current_player) == (current_player + 1) % NUM_PLAYERS

\* while current_player != stop: self._simulate_play(current_player);
\*     current_player = self._get_next_player(current_player)
RECURSIVE PlayLoop(_, _, _)
PlayLoop(e, current_player, stop) ==
    IF current_player = stop THEN {e}
    ELSE UNION {PlayLoop(x, _get_next_player(current_player), stop) :
                    x \in _simulate_play(e, current_player)}

(***************************************************************************)
(* WizardEnv._evaluate_trick                                               *)
(***************************************************************************)
\* the seat of the i-th card of the trick
PlayerOf(leader, i) == (leader + (i - 1)) % NUM_PLAYERS

\* for card, player in cards_with_players: ... the comparison loop from the
\* i-th card on, w the index of the winning card so far
RECURSIVE CompareFrom(_, _, _, _)
CompareFrom(trick, trump, i, w) ==
    IF i > Len(trick) THEN w
    ELSE LET card == trick[i]
             winning_card == trick[w]
         IN  IF card.value = JESTER THEN CompareFrom(trick, trump, i + 1, w)
             ELSE IF /\ trump # None
                     /\ card.suit = trump.suit
                     /\ winning_card.suit # trump.suit
                  THEN CompareFrom(trick, trump, i + 1, i)
             ELSE IF /\ card.suit = winning_card.suit
                     /\ card.value > winning_card.value
                  THEN CompareFrom(trick, trump, i + 1, i)
             ELSE CompareFrom(trick, trump, i + 1, w)

\* EvaluateTrickOf with the first Wizard winning
EvaluateFirstWizard(trick, leader, trump) ==
    LET wizards == {i \in 1 .. Len(trick) : trick[i].value = WIZARD}
        nonjesters == {i \in 1 .. Len(trick) : trick[i].value # JESTER}
    IN  IF wizards # {}
        THEN PlayerOf(leader, CHOOSE i \in wizards : \A j \in wizards : i <= j)
        ELSE IF nonjesters = {} THEN leader
        ELSE PlayerOf(leader,
                      CompareFrom(trick, trump, 1,
                                  CHOOSE i \in nonjesters :
                                      \A j \in nonjesters : i <= j))

\* EvaluateTrickOf with the first card, Jester or not, as the initial winner
EvaluateFromFirstCard(trick, leader, trump) ==
    LET wizards == {i \in 1 .. Len(trick) : trick[i].value = WIZARD}
        nonjesters == {i \in 1 .. Len(trick) : trick[i].value # JESTER}
    IN  IF wizards # {}
        THEN PlayerOf(leader, CHOOSE i \in wizards : \A j \in wizards : j <= i)
        ELSE IF nonjesters = {} THEN leader
        ELSE PlayerOf(leader, CompareFrom(trick, trump, 1, 1))

\* EvaluateTrickOf with the trump card ignored
EvaluateWithoutTrump(trick, leader, trump) ==
    LET wizards == {i \in 1 .. Len(trick) : trick[i].value = WIZARD}
        nonjesters == {i \in 1 .. Len(trick) : trick[i].value # JESTER}
    IN  IF wizards # {}
        THEN PlayerOf(leader, CHOOSE i \in wizards : \A j \in wizards : j <= i)
        ELSE IF nonjesters = {} THEN leader
        ELSE PlayerOf(leader,
                      CompareFrom(trick, None, 1,
                                  CHOOSE i \in nonjesters :
                                      \A j \in nonjesters : i <= j))

EvaluateTrickOf(trick, leader, trump) ==
    LET wizards == {i \in 1 .. Len(trick) : trick[i].value = WIZARD}
        nonjesters == {i \in 1 .. Len(trick) : trick[i].value # JESTER}
    IN  IF wizards # {}
        THEN PlayerOf(leader, CHOOSE i \in wizards : \A j \in wizards : j <= i)
        ELSE IF nonjesters = {} THEN leader
        ELSE PlayerOf(leader,
                      CompareFrom(trick, trump, 1,
                                  CHOOSE i \in nonjesters :
                                      \A j \in nonjesters : i <= j))

_evaluate_trick(e) ==
    EvaluateTrickOf(e.cards_played_in_trick, e.trick_leader, e.trump_card)

(***************************************************************************)
(* WizardEnv._play_until_agent_turn                                        *)
(***************************************************************************)
\* for i in range(self.round_starter, self.NUM_PLAYERS):
\*     bid = self.np_random.choice(list(range(round_number + 1)))
RECURSIVE EarlyBidLoop(_, _)
EarlyBidLoop(e, i) ==
    IF i >= NUM_PLAYERS THEN {e}
    ELSE UNION {EarlyBidLoop([e EXCEPT !.player_bids[i] = bid,
                                       !.bid_placed = @ \cup {i}], i + 1) :
                    bid \in choice(e, range(e.round_number + 1))}

\* _play_until_agent_turn without the plays that precede the agent's
_play_until_agent_turn_BidsOnly(e) ==
    IF e.phase = 0
    THEN {_update_valid_actions(x) :
            x \in IF e.round_starter # 0
                  THEN EarlyBidLoop(e, e.round_starter)
                  ELSE {e}}
    ELSE {e}

_play_until_agent_turn(e) ==
    IF e.phase = 0
    THEN {_update_valid_actions(x) :
            x \in IF e.round_starter # 0
                  THEN EarlyBidLoop(e, e.round_starter)
                  ELSE {e}}
    ELSE PlayLoop(e, e.trick_leader, 0)

(***************************************************************************)
(* WizardEnv._finish_trick                                                 *)
(***************************************************************************)
\* TrickReward with the bid compared to the count that includes this trick
TrickRewardAfterCount(e) ==
    IF _evaluate_trick(e) = 0
    THEN (IF e.player_tricks[0] + 1 < e.player_bids[0] THEN 2 ELSE -2)
    ELSE 0

\* the value _finish_trick returns, in tenths (0.2 is 2)
TrickReward(e) ==
    IF _evaluate_trick(e) = 0
    THEN (IF e.player_tricks[0] < e.player_bids[0] THEN 2 ELSE -2)
    ELSE 0

\* _finish_trick with the next trick led by the seat that led this one
_finish_trick_SameLeader(e) ==
    LET w == _evaluate_trick(e)
    IN  _update_valid_actions(
            [e EXCEPT !.winner = w,
                      !.evaluated = [log |-> e.trick_log,
                                     leader |-> e.trick_leader,
                                     size |-> Len(e.cards_played_in_trick)],
                      !.trick_log = <<>>,
                      !.player_tricks[w] = @ + 1,
                      !.position_in_trick = (4 - e.trick_leader) % 4,
                      !.cards_played_in_trick = <<>>,
                      !.lead_suit = NUM_SUITS])

_finish_trick(e) ==
    LET w == _evaluate_trick(e)
    IN  _update_valid_actions(
            [e EXCEPT !.winner = w,
                      !.evaluated = [log |-> e.trick_log,
                                     leader |-> e.trick_leader,
                                     size |-> Len(e.cards_played_in_trick)],
                      !.trick_log = <<>>,
                      !.player_tricks[w] = @ + 1,
                      !.trick_leader = w,
                      !.position_in_trick = (4 - w) % 4,
                      !.cards_played_in_trick = <<>>,
                      !.lead_suit = NUM_SUITS])

(***************************************************************************)
(* WizardEnv._finish_round                                                 *)
(***************************************************************************)
\* RoundScore with a missed bid costing one point whatever the distance
RoundScoreFlatPenalty(e, i) ==
    IF e.player_tricks[i] = e.player_bids[i]
    THEN e.player_scores[i] + (1 + (1 * e.player_bids[i]))
    ELSE e.player_scores[i] - 1

\* the score of seat i after the round's scoring
RoundScore(e, i) ==
    IF e.player_tricks[i] = e.player_bids[i]
    THEN e.player_scores[i] + (1 + (1 * e.player_bids[i]))
    ELSE e.player_scores[i] - Abs(e.player_bids[i] - e.player_tricks[i])

\* RoundReward with the reward of the round's last trick added to it; e is
\* the environment after _finish_trick
RoundRewardWithTrick(e) ==
    (10 * (RoundScore(e, 0) - e.player_scores[0]))
        + (IF e.winner # 0 THEN 0
           ELSE IF e.player_tricks[0] - 1 < e.player_bids[0] THEN 2 ELSE -2)

\* the value _finish_round returns, in tenths
RoundReward(e) == 10 * (RoundScore(e, 0) - e.player_scores[0])

\* RotateStarter with the starter left where it was
KeepStarter(e) == e.round_starter

\* self.round_starter = (self.round_starter + 1) % self.NUM_PLAYERS
RotateStarter(e) == (e.round_starter + 1) % NUM_PLAYERS

\* _finish_round with round_number left as it was
_finish_round_SameRound(e, seed) ==
    LET starter == RotateStarter(e)
    IN  _update_valid_actions(_deal_cards(
            [e EXCEPT !.player_scores = [i \in Seats |-> RoundScore(e, i)],
                      !.phase = 0,
                      !.player_bids = Zeros,
                      !.bid_placed = {},
                      !.player_tricks = Zeros,
                      !.cards_played_in_round = EmptyBag,
                      !.round_starter = starter,
                      !.trick_leader = starter,
                      !.position_in_trick = (4 - starter) % 4], seed))

_finish_round(e, seed) ==
    LET starter == RotateStarter(e)
    IN  _update_valid_actions(_deal_cards(
            [e EXCEPT !.player_scores = [i \in Seats |-> RoundScore(e, i)],
                      !.round_number = @ + 1,
                      !.phase = 0,
                      !.player_bids = Zeros,
                      !.bid_placed = {},
                      !.player_tricks = Zeros,
                      !.cards_played_in_round = EmptyBag,
                      !.round_starter = starter,
                      !.trick_leader = starter,
                      !.position_in_trick = (4 - starter) % 4], seed))

(***************************************************************************)
(* WizardEnv.reset                                                         *)
(***************************************************************************)
\* the environment after reset(): only self.round_starter is carried over;
\* free is the model's free_rounds
ResetEnv(starter, seed, free) ==
    _update_valid_actions(_deal_cards(
        [hands |-> [p \in Seats |-> <<>>], trump_card |-> None, deck |-> <<>>,
         cards_played_in_trick |-> <<>>, cards_played_in_round |-> EmptyBag,
         player_bids |-> Zeros, player_tricks |-> Zeros,
         player_scores |-> Zeros, round_number |-> 1, phase |-> 0,
         lead_suit |-> NUM_SUITS, position_in_trick |-> 0,
         valid_actions |-> {}, round_starter |-> starter,
         trick_leader |-> starter, bid_placed |-> {}, winner |-> NoSeat,
         trick_log |-> <<>>, evaluated |-> NoTrick,
         free_rounds |-> free],
        seed))

(***************************************************************************)
(* WizardEnv.step                                                          *)
(***************************************************************************)
\* for i in range(1, self.round_starter) if self.round_starter != 0
\*     else range(1, self.NUM_PLAYERS): ... the loop from seat i up to stop - 1
RECURSIVE RemainingBidLoop(_, _, _)
RemainingBidLoop(e, i, stop) ==
    IF i >= stop THEN {e}
    ELSE LET forbidden_bid == e.round_number - Sum(e.player_bids)
             valid_bids ==
                IF /\ i = NUM_PLAYERS - 1
                   /\ forbidden_bid >= 0
                   /\ forbidden_bid <= e.round_number
                THEN remove(range(e.round_number + 1), forbidden_bid)
                ELSE range(e.round_number + 1)
         IN  UNION {RemainingBidLoop([e EXCEPT !.player_bids[i] = bid,
                                               !.bid_placed = @ \cup {i}],
                                     i + 1, stop) :
                        bid \in choice(e, valid_bids)}

\* the outcome of a step: the environment it leaves and what it returns
Outcome(e, reward, done) == [env |-> e, reward |-> reward, done |-> done]

\* StepBidding with the first trick led by seat 0 whoever starts the round
StepBiddingAgentLeads(e, action) ==
    LET bids == RemainingBidLoop(_process_bid(e, action), 1,
                                 IF e.round_starter # 0 THEN e.round_starter
                                 ELSE NUM_PLAYERS)
        playing == {_update_valid_actions(
                        [x EXCEPT !.phase = 1,
                                  !.trick_leader = 0,
                                  !.position_in_trick = 0]) :
                    x \in bids}
    IN  {Outcome(y, 0, FALSE) :
            y \in UNION {_play_until_agent_turn(x) : x \in playing}}

\* if self.state["phase"] == 0: ... (the action is accepted)
StepBidding(e, action) ==
    LET bids == RemainingBidLoop(_process_bid(e, action), 1,
                                 IF e.round_starter # 0 THEN e.round_starter
                                 ELSE NUM_PLAYERS)
        playing == {_update_valid_actions(
                        [x EXCEPT !.phase = 1,
                                  !.trick_leader = x.round_starter,
                                  !.position_in_trick =
                                        (4 - x.round_starter) % 4]) :
                    x \in bids}
    IN  {Outcome(y, 0, FALSE) :
            y \in UNION {_play_until_agent_turn(x) : x \in playing}}

\* GameOver with the game ending as round MAX_ROUND is dealt
GameOverAtMaxRound(e) == e.round_number >= MAX_ROUND

\* if self.state["round_number"] > self.MAX_ROUND
GameOver(e) == e.round_number > MAX_ROUND

\* what follows the trick's last card: _finish_trick and, with every hand
\* empty, _finish_round
AfterTrick(e) ==
    LET t == _finish_trick(e)
    IN  IF \A p \in Seats : Len(t.hands[p]) = 0
        THEN UNION {LET r == _finish_round(t, seed)
                    IN  IF GameOver(r)
                        THEN {Outcome(r, RoundReward(t), TRUE)}
                        ELSE {Outcome(y, RoundReward(t), FALSE) :
                                y \in _play_until_agent_turn(r)} :
                    seed \in ShuffleSeeds(t.round_number + 1, t.free_rounds)}
        ELSE {Outcome(y, TrickReward(e), FALSE) :
                y \in _play_until_agent_turn(t)}

\* else: ... (the action is accepted)
StepPlaying(e, action) ==
    UNION {AfterTrick(x) :
            x \in PlayLoop(_process_play(e, action), _get_next_player(0),
                           e.trick_leader)}

StepRaises(e, action) ==
    IF e.phase = 0 THEN BidRaises(e, action) ELSE PlayRaises(e, action)

StepOutcomes(e, action) ==
    IF e.phase = 0 THEN StepBidding(e, action) ELSE StepPlaying(e, action)

\* StepRaised with the bid stored before it is validated
StepRaisedAfterStore(e, action) ==
    IF e.phase = 0 THEN [e EXCEPT !.player_bids[0] = action] ELSE e

\* the environment that a step leaves when it raises: _process_bid and
\* _process_play raise before their first assignment
StepRaised(e, action) == e

(***************************************************************************)
(* The environment driven by its caller                                    *)
(***************************************************************************)
Actions == 0 .. (DECK_SIZE - 1)

\* the rejected actions the model submits: the slots up to the first bid
\* that is out of range
RejectedInputs(e) == {a \in Actions : a <= e.round_number + 1}

\* the variables hold the fields of the environment value e
Starts(e) ==
    /\ hands = e.hands
    /\ trump_card = e.trump_card
    /\ deck = e.deck
    /\ cards_played_in_trick = e.cards_played_in_trick
    /\ cards_played_in_round = e.cards_played_in_round
    /\ player_bids = e.player_bids
    /\ player_tricks = e.player_tricks
    /\ player_scores = e.player_scores
    /\ round_number = e.round_number
    /\ phase = e.phase
    /\ lead_suit = e.lead_suit
    /\ position_in_trick = e.position_in_trick
    /\ valid_actions = e.valid_actions
    /\ round_starter = e.round_starter
    /\ trick_leader = e.trick_leader
    /\ bid_placed = e.bid_placed
    /\ winner = e.winner
    /\ trick_log = e.trick_log
    /\ evaluated = e.evaluated
    /\ free_rounds = e.free_rounds

\* WizardEnv.__init__: round_starter = 0, then self.reset()
Constructed(free) ==
    /\ \E seed \in ShuffleSeeds(1, free) : Starts(ResetEnv(0, seed, free))
    /\ call = [NoCall EXCEPT !.kind = "reset"]
    /\ checked = NoCheck
    /\ twin = NoTwin
    /\ coded = NoCode

Init == Constructed(AnyDraw)

\* env.reset()
Reset ==
    /\ \E seed \in ShuffleSeeds(1, free_rounds) :
            Becomes(ResetEnv(round_starter, seed, free_rounds))
    /\ call' = [NoCall EXCEPT !.kind = "reset"]
    /\ UNCHANGED <<checked, twin, coded>>

\* env.step(action), the action accepted
StepAccepted(action) ==
    /\ ~StepRaises(Env, action)
    /\ \E o \in StepOutcomes(Env, action) :
        /\ Becomes(o.env)
        /\ call' = [kind |-> "step", action |-> action, raised |-> FALSE,
                    reward |-> o.reward, done |-> o.done]
    /\ UNCHANGED <<checked, twin, coded>>

\* env.step(action), the action rejected with ValueError
StepRejected(action) ==
    /\ StepRaises(Env, action)
    /\ Becomes(StepRaised(Env, action))
    /\ call' = [kind |-> "step", action |-> action, raised |-> TRUE,
                reward |-> 0, done |-> FALSE]
    /\ UNCHANGED <<checked, twin, coded>>

\* A rejected call leaves the environment as it was, so the calls that can
\* follow it are the calls that could be made in its place: the model
\* explores them from the state before it, and after a rejected call only
\* reset.
CanStep == round_number <= MaxRoundPlayed /\ ~call.raised

StepOk == CanStep /\ \E action \in Actions : StepAccepted(action)

StepError == CanStep /\ \E action \in RejectedInputs(Env) : StepRejected(action)

Next == Reset \/ StepOk \/ StepError

Spec == Init /\ [][Next]_vars

(***************************************************************************)
(* SpecGame: whole games, from reset to the step that returns done and one *)
(* call beyond it.  After round MaxFreeRound the random draws are the      *)
(* shuffle of seed 0 and the first element of each list, and the caller    *)
(* submits the lowest action that step accepts.                            *)
(***************************************************************************)
\* the accepted actions that the caller submits
CallerActions(e) ==
    {a \in Actions :
        /\ ~StepRaises(e, a)
        /\ \/ e.round_number <= e.free_rounds
           \/ \A b \in 0 .. (a - 1) : StepRaises(e, b)}

InitGame == Constructed(MaxFreeRound)

\* step is called until it returns done, and once more after that
CanPlayOn == round_number <= MAX_ROUND \/ call.done

PlayOn == CanPlayOn /\ \E action \in CallerActions(Env) : StepAccepted(action)

NextGame == Reset \/ PlayOn

SpecGame == InitGame /\ [][NextGame]_vars

\* SpecRun: one game of SpecGame, without a reset, whose caller goes on
\* calling step while it can (play_random_game's while not done loop).
\* KeepsCalling is the weak fairness of PlayOn, WF_vars(PlayOn), written
\* with CanPlayOn for ENABLED <<PlayOn>>_vars: a step is accepted whenever
\* one may be called, and every accepted step changes the state.
KeepsCalling == []<>(~CanPlayOn) \/ []<><<PlayOn>>_vars

SpecRun == InitGame /\ [][PlayOn]_vars /\ KeepsCalling

(***************************************************************************)
(* SpecTwin: two instances of the environment, both reset with one seed    *)
(* and fed the same actions.  reset(seed) seeds self.np_random, so the two *)
(* draw the same np_random stream: instances in the same state make the    *)
(* same bids and plays.  random.shuffle draws from the generator of the    *)
(* random module, which reset does not seed: each instance's deal on reset *)
(* is the shuffle of a seed of its own.  The instances are stepped while   *)
(* they are in the same state.                                             *)
(***************************************************************************)
\* the mask of a list of cards
Mask(cards) == {to_vector(c) : c \in Range(cards)}

\* self.state, the observation that reset and step return
Observation(e) ==
    [hand |-> Mask(e.hands[0]),
     trump_card |-> IF e.trump_card = None THEN {} ELSE {to_vector(e.trump_card)},
     cards_played_in_trick |-> Mask(e.cards_played_in_trick),
     cards_played_in_round |-> e.cards_played_in_round,
     player_bids |-> e.player_bids,
     player_tricks |-> e.player_tricks,
     player_scores |-> e.player_scores,
     round_number |-> e.round_number,
     phase |-> e.phase,
     lead_suit |-> e.lead_suit,
     position_in_trick |-> e.position_in_trick,
     valid_actions |-> e.valid_actions]

\* the environment less what _deal_cards sets
LessDeal(e) == [e EXCEPT !.hands = <<>>, !.trump_card = None, !.deck = <<>>]

\* two outcomes of one step from one state under the same np_random
\* stream: the same outcome, but for the cards dealt if the step deals
SameDraws(e, a, b) ==
    /\ a.reward = b.reward
    /\ a.done = b.done
    /\ IF a.env.round_number = e.round_number /\ b.env.round_number = e.round_number
       THEN a.env = b.env
       ELSE LessDeal(a.env) = LessDeal(b.env)

InitTwin ==
    /\ \E seed \in TwinSeeds : Starts(ResetEnv(0, seed, AnyDraw))
    /\ \E seed \in TwinSeeds :
            twin = [env |-> ResetEnv(0, seed, AnyDraw),
                    call |-> [NoCall EXCEPT !.kind = "reset"]]
    /\ call = [NoCall EXCEPT !.kind = "reset"]
    /\ checked = NoCheck
    /\ coded = NoCode

\* reset(seed) on both instances
ResetTwin ==
    /\ \E seed \in TwinSeeds :
            Becomes(ResetEnv(round_starter, seed, free_rounds))
    /\ \E seed \in TwinSeeds :
            twin' = [env |-> ResetEnv(twin.env.round_starter, seed,
                                      twin.env.free_rounds),
                     call |-> [NoCall EXCEPT !.kind = "reset"]]
    /\ call' = [NoCall EXCEPT !.kind = "reset"]
    /\ UNCHANGED <<checked, coded>>

\* step(action) on both instances
StepTwin ==
    /\ round_number <= MaxTwinRound
    /\ twin.env = Env
    /\ \E action \in Actions :
        /\ ~StepRaises(Env, action)
        /\ \E a \in StepOutcomes(Env, action) :
           \E b \in StepOutcomes(twin.env, action) :
                /\ SameDraws(Env, a, b)
                /\ Becomes(a.env)
                /\ call' = [kind |-> "step", action |-> action,
                            raised |-> FALSE, reward |-> a.reward,
                            done |-> a.done]
                /\ twin' = [env |-> b.env,
                            call |-> [kind |-> "step", action |-> action,
                                      raised |-> FALSE, reward |-> b.reward,
                                      done |-> b.done]]
    /\ UNCHANGED <<checked, coded>>

NextTwin == ResetTwin \/ StepTwin

SpecTwin == InitTwin /\ [][NextTwin]_vars

(***************************************************************************)
(* SpecEval: _evaluate_trick on complete tricks.  The cards of a trick are *)
(* numeric cards and Wizards of the bounded values and suits and the four  *)
(* Jesters; the trump card is None or the 13 of a suit (_evaluate_trick    *)
(* reads only whether there is a trump card and its suit).                 *)
(***************************************************************************)
EvalSuits == 0 .. MaxEvalSuit

EvalCards ==
    {Card(v, su) : v \in (1 .. MaxEvalValue) \cup {WIZARD}, su \in EvalSuits}
        \cup {Card(JESTER, su) : su \in Suits}

EvalTrumps == {None} \cup {Card(THIRTEEN, su) : su \in EvalSuits}

\* the lists of n distinct cards of the set cards
RECURSIVE DistinctSeqs(_, _)
DistinctSeqs(cards, n) ==
    IF n = 0 THEN {<<>>}
    ELSE UNION {{Append(t, c) : c \in cards \ Range(t)} :
                    t \in DistinctSeqs(cards, n - 1)}

\* every variable that the methods of the specification at hand do not read
Idle ==
    /\ deck = <<>>
    /\ cards_played_in_round = EmptyBag
    /\ player_bids = Zeros
    /\ player_tricks = Zeros
    /\ player_scores = Zeros
    /\ round_number = 1
    /\ phase = 1
    /\ lead_suit = NUM_SUITS
    /\ position_in_trick = 0
    /\ valid_actions = {}
    /\ round_starter = 0
    /\ bid_placed = {}
    /\ trick_log = <<>>
    /\ evaluated = NoTrick
    /\ call = NoCall
    /\ free_rounds = AnyDraw
    /\ twin = NoTwin

InitEval ==
    /\ cards_played_in_trick \in DistinctSeqs(EvalCards, NUM_PLAYERS)
    /\ trick_leader \in Seats
    /\ trump_card \in EvalTrumps
    /\ hands = [p \in Seats |-> <<>>]
    /\ winner = NoSeat
    /\ checked = NoCheck
    /\ coded = NoCode
    /\ Idle

\* winner = self._evaluate_trick()
EvaluateTrick ==
    /\ winner = NoSeat
    /\ winner' = _evaluate_trick(Env)
    /\ UNCHANGED <<hands, trump_card, deck, cards_played_in_trick,
                   cards_played_in_round, player_bids, player_tricks,
                   player_scores, round_number, phase, lead_suit,
                   position_in_trick, valid_actions, round_starter,
                   trick_leader, bid_placed, trick_log, evaluated, call,
                   checked, free_rounds, twin, coded>>

NextEval == EvaluateTrick

SpecEval == InitEval /\ [][NextEval]_vars

(***************************************************************************)
(* SpecPlay: _is_valid_play on the hand of one seat and a partial trick,   *)
(* drawn from the numeric cards, Wizards and Jesters of the bounded values *)
(* and suits.                                                              *)
(***************************************************************************)
PlayCards ==
    {Card(v, su) : v \in (1 .. MaxEvalValue) \cup {WIZARD, JESTER},
                   su \in EvalSuits}

\* the lists of at least lo and at most hi distinct cards
SeqsBetween(cards, lo, hi) == UNION {DistinctSeqs(cards, n) : n \in lo .. hi}

InitPlay ==
    /\ \E player \in Seats :
       \E hand \in SeqsBetween(PlayCards, 1, MaxPlayHand) :
            /\ hands = [p \in Seats |-> IF p = player THEN hand ELSE <<>>]
            /\ cards_played_in_trick \in
                    SeqsBetween(PlayCards \ Range(hand), 0, MaxPlayTrick)
    /\ trick_leader = 0
    /\ trump_card = None
    /\ winner = NoSeat
    /\ checked = NoCheck
    /\ coded = NoCode
    /\ Idle

\* self._is_valid_play(card, player_idx)
CheckPlay ==
    /\ checked = NoCheck
    /\ \E player_idx \in Seats :
       \E card \in PlayCards :
            /\ hands[player_idx] # <<>>
            /\ checked' = [card |-> card, player |-> player_idx,
                           result |-> _is_valid_play(Env, card, player_idx)]
    /\ UNCHANGED <<hands, trump_card, deck, cards_played_in_trick,
                   cards_played_in_round, player_bids, player_tricks,
                   player_scores, round_number, phase, lead_suit,
                   position_in_trick, valid_actions, round_starter,
                   trick_leader, bid_placed, trick_log, evaluated, winner,
                   call, free_rounds, twin, coded>>

NextPlay == CheckPlay

SpecPlay == InitPlay /\ [][NextPlay]_vars

(***************************************************************************)
(* SpecCard: Card.from_vector_idx applied to the indices 0..59, and        *)
(* Card.to_vector applied to the cards it returns and to the cards that    *)
(* _create_deck builds.                                                    *)
(***************************************************************************)
InitCard ==
    /\ \/ \E i \in Actions : coded = [NoCode EXCEPT !.idx = i]
       \/ \E k \in 1 .. Len(_create_deck) :
                coded = [NoCode EXCEPT !.card = _create_deck[k]]
    /\ hands = [p \in Seats |-> <<>>]
    /\ cards_played_in_trick = <<>>
    /\ trick_leader = 0
    /\ trump_card = None
    /\ winner = NoSeat
    /\ checked = NoCheck
    /\ Idle

\* card = Card.from_vector_idx(idx)
Decode ==
    /\ coded.idx # NoCode.idx
    /\ coded.card = None
    /\ coded' = [coded EXCEPT !.card = from_vector_idx(coded.idx)]
    /\ UNCHANGED <<hands, trump_card, deck, cards_played_in_trick,
                   cards_played_in_round, player_bids, player_tricks,
                   player_scores, round_number, phase, lead_suit,
                   position_in_trick, valid_actions, round_starter,
                   trick_leader, bid_placed, trick_log, evaluated, winner,
                   call, checked, free_rounds, twin>>

\* card.to_vector(DECK_SIZE)
Encode ==
    /\ coded.card # None
    /\ coded.slot = NoCode.slot
    /\ coded' = [coded EXCEPT !.slot = to_vector(coded.card)]
    /\ UNCHANGED <<hands, trump_card, deck, cards_played_in_trick,
                   cards_played_in_round, player_bids, player_tricks,
                   player_scores, round_number, phase, lead_suit,
                   position_in_trick, valid_actions, round_starter,
                   trick_leader, bid_placed, trick_log, evaluated, winner,
                   call, checked, free_rounds, twin>>

NextCard == Decode \/ Encode

SpecCard == InitCard /\ [][NextCard]_vars

(***************************************************************************)
(* The reference rules that the claims are stated against                  *)
(***************************************************************************)
IsNumeric(card) == card.value # WIZARD /\ card.value # JESTER

\* the numeric cards of a trick, by index
NumericIn(trick) == {i \in 1 .. Len(trick) : IsNumeric(trick[i])}

\* the suit of the first numeric card of a trick that holds one
FirstNumericSuit(trick) ==
    trick[CHOOSE i \in NumericIn(trick) : \A j \in NumericIn(trick) : i <= j].suit

\* the follow-suit rule: a held card is legal iff the trick is empty, or the
\* card is a Wizard or Jester, or no numeric card has been played, or the
\* card is of the suit of the first numeric card played, or the hand holds no
\* numeric card of that suit
RuleLegal(hand, trick, card) ==
    /\ card \in Range(hand)
    /\ \/ Len(trick) = 0
       \/ ~IsNumeric(card)
       \/ NumericIn(trick) = {}
       \/ card.suit = FirstNumericSuit(trick)
       \/ ~\E c \in Range(hand) :
                IsNumeric(c) /\ c.suit = FirstNumericSuit(trick)

\* the index in the trick of the card that seat s played
IndexOfSeat(s) == ((s - trick_leader) % NUM_PLAYERS) + 1

Evaluated == winner # NoSeat

Trick == cards_played_in_trick

(***************************************************************************)
(* C1  The undealt deck, the four hands, the trump card (if drawn) and the *)
(* cards played in the current round are pairwise disjoint and together    *)
(* are exactly the 60 cards: every pile holds cards of the deck only, the  *)
(* piles hold 60 cards in all, and their slots are all of 0..59.           *)
(***************************************************************************)
Held ==
    deck \o hands[0] \o hands[1] \o hands[2] \o hands[3]
         \o (IF trump_card = None THEN <<>> ELSE <<trump_card>>)

C1_CardsPartitioned ==
    /\ Range(Held) \subseteq Range(_create_deck)
    /\ Len(Held) + BagCardinality(cards_played_in_round) = 60
    /\ {to_vector(c) : c \in Range(Held)} \cup BagToSet(cards_played_in_round)
            = 0 .. 59

\* round 2 after its first trick: deck, hands, trump and pile all non-empty
C1_Witness ==
    /\ round_number = 2
    /\ phase = 1
    /\ call.kind = "step"
    /\ BagCardinality(cards_played_in_round) >= NUM_PLAYERS
    /\ Len(hands[0]) = 1
    /\ trump_card # None
    /\ Len(deck) > 0

(***************************************************************************)
(* C2  Once bidding is complete and the phase is Playing, the four bids    *)
(* never sum to round_number, whichever seat started the round.            *)
(***************************************************************************)
C2_BidsNeverExact == (phase = 1) => Sum(player_bids) # round_number

(***************************************************************************)
(* C3  In the Bidding phase valid_actions marks exactly the legal bids:    *)
(* 0..round_number, less f = round_number - (the others' bids) when the    *)
(* three other seats have all bid (a bid of 0 included) and f is in        *)
(* 0..round_number.                                                        *)
(***************************************************************************)
OthersHaveBid == (Seats \ {0}) \subseteq bid_placed

HookBid == round_number - (player_bids[1] + player_bids[2] + player_bids[3])

LegalBids ==
    IF OthersHaveBid /\ HookBid \in 0 .. round_number
    THEN (0 .. round_number) \ {HookBid}
    ELSE 0 .. round_number

C3_BidMaskExact == (phase = 0) => valid_actions = LegalBids

(***************************************************************************)
(* C4  In the Playing phase valid_actions marks exactly the slots of the   *)
(* agent's cards that the follow-suit rule allows on the current trick.    *)
(***************************************************************************)
C4_PlayMaskExact ==
    (phase = 1) =>
        valid_actions =
            {to_vector(c) : c \in {x \in Range(hands[0]) :
                                        RuleLegal(hands[0], Trick, x)}}

(***************************************************************************)
(* C5  A Playing-phase step whose action is a held numeric card off the    *)
(* lead suit, while the agent holds a card of the lead suit, is rejected   *)
(* and the trick is left as it was.                                        *)
(***************************************************************************)
\* slot a is a held card that breaks the follow-suit rule on the trick
Revokes(a) ==
    /\ phase = 1
    /\ from_vector_idx(a) \in Range(hands[0])
    /\ ~RuleLegal(hands[0], Trick, from_vector_idx(a))

C5_RevokeRejected ==
    [][(call'.kind = "step" /\ Revokes(call'.action))
            => (call'.raised /\ UNCHANGED cards_played_in_trick)]_vars

(***************************************************************************)
(* C6  _is_valid_play agrees with the follow-suit rule on every hand,      *)
(* trick and card; a Wizard or Jester in the hand never counts as holding  *)
(* the lead suit.                                                          *)
(***************************************************************************)
C6_ValidPlayIsRule ==
    (checked # NoCheck) =>
        (checked.result =
            RuleLegal(hands[checked.player], Trick, checked.card))

(***************************************************************************)
(* C7  A complete trick that holds a Wizard is won by the seat that played *)
(* the last Wizard, for every leader and trump card.                       *)
(***************************************************************************)
WizardsIn(trick) == {i \in 1 .. Len(trick) : trick[i].value = WIZARD}

C7_LastWizardWins ==
    (Evaluated /\ WizardsIn(Trick) # {}) =>
        \E i \in WizardsIn(Trick) :
            /\ \A j \in WizardsIn(Trick) : j <= i
            /\ winner = (trick_leader + (i - 1)) % 4

\* two Wizards, the later one third in the trick, a trump card drawn
C7_Witness ==
    /\ Evaluated
    /\ WizardsIn(Trick) = {1, 3}
    /\ trick_leader = 2
    /\ trump_card # None
    /\ winner = 0

(***************************************************************************)
(* C8  In a trick without a Wizard: if every card is a Jester the leader   *)
(* wins; otherwise the winner played no Jester, and the winning card is    *)
(* the card that wins the trick with its Jesters removed.                  *)
(***************************************************************************)
JestersIn(trick) == {i \in 1 .. Len(trick) : trick[i].value = JESTER}

\* the trick without its Jesters, the order kept
RECURSIVE WithoutJesters(_)
WithoutJesters(trick) ==
    IF trick = <<>> THEN <<>>
    ELSE IF Head(trick).value = JESTER THEN WithoutJesters(Tail(trick))
    ELSE <<Head(trick)>> \o WithoutJesters(Tail(trick))

\* the card that wins a trick led by seat 0
WinningCardOf(trick, trump) == trick[EvaluateTrickOf(trick, 0, trump) + 1]

C8_JestersNeverCount ==
    (Evaluated /\ WizardsIn(Trick) = {}) =>
        IF JestersIn(Trick) = 1 .. Len(Trick)
        THEN winner = trick_leader
        ELSE /\ Trick[IndexOfSeat(winner)].value # JESTER
             /\ Trick[IndexOfSeat(winner)] =
                    WinningCardOf(WithoutJesters(Trick), trump_card)

\* a Jester of the trump suit leads, numeric cards follow
C8_Witness ==
    /\ Evaluated
    /\ WizardsIn(Trick) = {}
    /\ JestersIn(Trick) = {1, 3}
    /\ trump_card # None
    /\ Trick[1].suit = trump_card.suit
    /\ Trick[2].suit # trump_card.suit
    /\ winner # trick_leader

\* every card a Jester
C8_WitnessAllJesters ==
    /\ Evaluated
    /\ JestersIn(Trick) = 1 .. NUM_PLAYERS
    /\ trick_leader = 3
    /\ winner = 3

(***************************************************************************)
(* C9  In a trick without a Wizard and with a numeric card: if a numeric   *)
(* card of the trump suit was played, the highest of them wins; otherwise  *)
(* (no trump card drawn included) the highest card of the suit of the      *)
(* first numeric card wins.                                                *)
(***************************************************************************)
TrumpsIn(trick) ==
    {i \in NumericIn(trick) :
        trump_card # None /\ trick[i].suit = trump_card.suit}

LeadSuitIn(trick) ==
    {i \in NumericIn(trick) : trick[i].suit = FirstNumericSuit(trick)}

\* the index, among those of the set idx, of the highest card of the trick
Highest(trick, idx) ==
    CHOOSE i \in idx : \A j \in idx : trick[j].value <= trick[i].value

C9_TrumpThenLeadSuit ==
    (Evaluated /\ WizardsIn(Trick) = {} /\ NumericIn(Trick) # {}) =>
        IndexOfSeat(winner) =
            IF TrumpsIn(Trick) # {}
            THEN Highest(Trick, TrumpsIn(Trick))
            ELSE Highest(Trick, LeadSuitIn(Trick))

\* a low trump, third, beats the two cards of the suit led; a Jester is last
C9_Witness ==
    /\ Evaluated
    /\ trump_card = Card(THIRTEEN, 1)
    /\ Trick = <<Card(1, 0), Card(2, 0), Card(1, 1), Card(JESTER, 0)>>
    /\ trick_leader = 1
    /\ winner = 3

\* no trump card drawn: the higher card of the suit led wins
C9_WitnessNoTrump ==
    /\ Evaluated
    /\ trump_card = None
    /\ Trick = <<Card(1, 0), Card(2, 1), Card(2, 0), Card(1, 1)>>
    /\ winner = (trick_leader + 2) % 4

(***************************************************************************)
(* C10  When a round closes every seat's score changes by 1 + bid if its   *)
(* tricks won equal its bid and by -|bid - tricks won| otherwise; reset    *)
(* clears the scores and no other call changes them.                       *)
(***************************************************************************)
\* a step closes the round: only _finish_round changes round_number
RoundCloses == round_number' = round_number + 1

\* the tricks seat i has won when the round closes: the last trick counted
FinalTricks(i) == player_tricks[i] + (IF winner' = i THEN 1 ELSE 0)

ScoreDelta(bid, tricks) ==
    IF tricks = bid THEN 1 + bid
    ELSE IF bid > tricks THEN -(bid - tricks) ELSE -(tricks - bid)

C10_ScoresByTheRule ==
    [][IF call'.kind = "reset" THEN player_scores' = Zeros
       ELSE IF RoundCloses
            THEN \A i \in Seats :
                    player_scores'[i] =
                        player_scores[i]
                            + ScoreDelta(player_bids[i], FinalTricks(i))
            ELSE UNCHANGED player_scores]_vars

\* round 2 has closed: a seat is at -3 (a miss by 1, then by 2) and a seat
\* has made both its bids
C10_Witness ==
    /\ round_number = 3
    /\ call.kind = "step"
    /\ \E i \in Seats : player_scores[i] = -3
    /\ \E i \in Seats : player_scores[i] >= 4

(***************************************************************************)
(* C11  On a step that closes a round the reward is the agent's score      *)
(* change for the round (ten tenths a point) and nothing else: the reward  *)
(* of the round's last trick is not added.                                 *)
(***************************************************************************)
C11_RoundRewardIsScoreChange ==
    [][(call'.kind = "step" /\ RoundCloses) =>
            /\ call'.reward = 10 * (player_scores'[0] - player_scores[0])
            /\ call'.reward =
                    10 * ScoreDelta(player_bids[0], FinalTricks(0))]_vars

\* round 2 closed on a trick the agent won, which cost it a point
C11_Witness ==
    /\ call.kind = "step"
    /\ round_number = 3
    /\ phase = 0
    /\ winner = 0
    /\ call.reward = -10

(***************************************************************************)
(* C12  On a Playing-phase step that completes a trick without closing the *)
(* round the reward, in tenths, is +2 if the agent won the trick with its  *)
(* tricks won before it below its bid, -2 if it won the trick with its     *)
(* tricks won before it at or above its bid, and 0 if another seat won.    *)
(***************************************************************************)
C12_TrickReward ==
    [][(call'.kind = "step" /\ ~call'.raised /\ phase = 1 /\ ~RoundCloses) =>
            call'.reward =
                IF winner' # 0 THEN 0
                ELSE IF player_tricks[0] < player_bids[0] THEN 2 ELSE -2]_vars

\* the agent bid 1 and won the first trick of round 2
C12_Witness ==
    /\ call.kind = "step"
    /\ round_number = 2
    /\ phase = 1
    /\ Len(hands[0]) = 1
    /\ winner = 0
    /\ player_bids[0] = 1
    /\ player_tricks[0] = 1
    /\ call.reward = 2

\* the agent bid 0 and won the first trick of round 2
C12_WitnessOvershoot ==
    /\ call.kind = "step"
    /\ round_number = 2
    /\ phase = 1
    /\ Len(hands[0]) = 1
    /\ winner = 0
    /\ player_bids[0] = 0
    /\ call.reward = -2

\* another seat won the first trick of round 2
C12_WitnessLost ==
    /\ call.kind = "step"
    /\ round_number = 2
    /\ phase = 1
    /\ Len(hands[0]) = 1
    /\ winner # 0
    /\ call.reward = 0

(***************************************************************************)
(* C13  In a game played from reset with accepted actions, step returns    *)
(* done exactly on the step that completes round 15, which takes           *)
(* round_number to 16; every earlier step returns done = false and leaves  *)
(* round_number in 1..15.                                                  *)
(***************************************************************************)
C13_DoneAfterRound15 ==
    [][(call'.kind = "step" /\ ~call'.raised /\ round_number <= 15) =>
            /\ call'.done = (round_number' = 16)
            /\ call'.done => (round_number = 15 /\ RoundCloses)
            /\ ~call'.done => round_number' \in 1 .. 15]_vars

\* the step that completed round 15 has returned done
C13_Witness ==
    /\ call.kind = "step"
    /\ call.done
    /\ round_number = 16
    /\ \A p \in Seats : Len(hands[p]) = 15

(***************************************************************************)
(* C14  Once a step has returned done, every further step before the next  *)
(* reset fails and leaves the game as it was: no bid and no play is        *)
(* accepted for a round beyond MAX_ROUND.                                  *)
(***************************************************************************)
C14_StepAfterDoneFails ==
    [][(call'.kind = "step" /\ (call.done \/ round_number > MAX_ROUND)) =>
            /\ call'.raised
            /\ UNCHANGED <<hands, cards_played_in_trick, player_bids,
                           player_tricks, player_scores, round_number, phase,
                           round_starter, trick_leader>>]_vars

(***************************************************************************)
(* C15  After every reset, whatever calls came before on the instance, the *)
(* first round starts at seat 0: round_starter = 0 and trick_leader = 0.   *)
(***************************************************************************)
C15_ResetStartsAtSeat0 ==
    (call.kind = "reset") => (round_starter = 0 /\ trick_leader = 0)

(***************************************************************************)
(* C16  Each time a round closes round_starter becomes                     *)
(* (round_starter + 1) mod 4, and no other call changes it.                *)
(***************************************************************************)
C16_StarterRotates ==
    [][IF call'.kind = "step" /\ RoundCloses
       THEN round_starter' = (round_starter + 1) % 4
       ELSE UNCHANGED round_starter]_vars

\* the starter has gone round the table: round 4 closed with seat 3 starting
C16_Witness ==
    /\ call.kind = "step"
    /\ phase = 0
    /\ round_number = 5
    /\ round_starter = 0
    /\ player_scores # Zeros

(***************************************************************************)
(* C17  In every round each seat places one bid before the first card is   *)
(* played, and whenever the agent is to bid (on return from reset or from  *)
(* a round-closing step) the seats before it in bidding order, which       *)
(* starts at round_starter, have bid.                                      *)
(***************************************************************************)
\* the seats that bid before seat 0 in a round started by seat s
BidsBeforeAgent(s) == IF s = 0 THEN {} ELSE s .. (NUM_PLAYERS - 1)

C17_EverySeatBids ==
    /\ (phase = 1) => (bid_placed = Seats)
    /\ (phase = 0) => (bid_placed = BidsBeforeAgent(round_starter))

(***************************************************************************)
(* C18  Two instances reset with the same seed and fed the same actions    *)
(* return the same observations, rewards and done flags: every random      *)
(* choice is a function of the seed given to reset.                        *)
(***************************************************************************)
C18_SameSeedSameGame ==
    (twin # NoTwin) =>
        /\ Observation(Env) = Observation(twin.env)
        /\ call.reward = twin.call.reward
        /\ call.done = twin.call.done

(***************************************************************************)
(* C19  Decoding an index of 0..59 and encoding the card gives the vector  *)
(* set at that index; the 60 cards of _create_deck are distinct and encode *)
(* to distinct slots, all of 0..59.                                        *)
(***************************************************************************)
C19_EncodingRoundTrip ==
    /\ (coded.idx # NoCode.idx /\ coded.slot # NoCode.slot) =>
            coded.slot = coded.idx
    /\ (coded.idx = NoCode.idx /\ coded.slot # NoCode.slot) =>
            /\ coded.slot \in 0 .. 59
            /\ \A k \in 1 .. 60 :
                    (to_vector(_create_deck[k]) = coded.slot)
                        <=> (_create_deck[k] = coded.card)
    /\ Len(_create_deck) = 60
    /\ Cardinality(Range(_create_deck)) = 60

\* the index 52 decoded to the Wizard of suit 0 and encoded back
C19_Witness ==
    /\ coded.idx = 52
    /\ coded.card = Card(WIZARD, 0)
    /\ coded.slot = 52

\* the Jester of suit 3, the last card of the deck, encoded
C19_WitnessDeck ==
    /\ coded.idx = NoCode.idx
    /\ coded.card = _create_deck[60]
    /\ coded.slot = 59

(***************************************************************************)
(* C20  A step given a bid outside the legal bid set (out of               *)
(* 0..round_number, or the hook-excluded value) in Bidding, or a card      *)
(* index that the agent does not hold in Playing, raises an error and      *)
(* leaves the game state as it was before the call.                        *)
(***************************************************************************)
IllegalInput(a) ==
    IF phase = 0 THEN a \notin LegalBids
    ELSE from_vector_idx(a) \notin Range(hands[0])

GameState ==
    <<hands, trump_card, deck, cards_played_in_trick, cards_played_in_round,
      player_bids, player_tricks, player_scores, round_number, phase,
      lead_suit, position_in_trick, valid_actions, round_starter,
      trick_leader>>

C20_IllegalInputRejected ==
    [][(call'.kind = "step" /\ IllegalInput(call'.action))
            => (call'.raised /\ UNCHANGED GameState)]_vars

\* the part of C20 about the calls that do raise: they change nothing
RaisedLeavesState ==
    [][(call'.kind = "step" /\ call'.raised) => UNCHANGED GameState]_vars

(***************************************************************************)
(* C21  Every accepted step taken in the Bidding phase returns reward 0    *)
(* and done = false, moves the phase to Playing, sets trick_leader to      *)
(* round_starter, and leaves round_number, the scores, the tricks won and  *)
(* the agent's hand unchanged.                                             *)
(***************************************************************************)
C21_BiddingStepFrame ==
    [][(call'.kind = "step" /\ ~call'.raised /\ phase = 0) =>
            /\ call'.reward = 0
            /\ call'.done = FALSE
            /\ phase' = 1
            /\ trick_leader' = round_starter
            /\ UNCHANGED <<round_number, player_scores, player_tricks>>
            /\ hands'[0] = hands[0]]_vars

\* the agent has bid in round 2, started by seat 1: seats 1, 2 and 3 have
\* played into the first trick and the agent holds its two cards
C21_Witness ==
    /\ call.kind = "step"
    /\ phase = 1
    /\ round_number = 2
    /\ round_starter = 1
    /\ trick_leader = 1
    /\ Len(cards_played_in_trick) = 3
    /\ Len(hands[0]) = 2
    /\ player_tricks = Zeros

(***************************************************************************)
(* C22  If the first card played in a trick is a Wizard or a Jester, the   *)
(* lead_suit field keeps the sentinel value 4 until the trick is resolved, *)
(* whatever the later seats play.                                          *)
(***************************************************************************)
C22_SpecialLeadNoSuit ==
    (Len(Trick) > 0 /\ ~IsNumeric(Trick[1])) => (lead_suit = 4)

(***************************************************************************)
(* C23  Every card auto-played by a seat other than the agent is a card of *)
(* that seat's hand that _is_valid_play allows at the moment it is played, *)
(* and no such seat's turn is skipped for want of a legal card.            *)
(***************************************************************************)
\* the turns of seats other than the agent were taken with an allowed card
OpponentTurnsLegal(log) ==
    \A i \in 1 .. Len(log) :
        (log[i].seat # 0) => (log[i].played /\ log[i].legal)

\* the hand that the seat of the i-th card of the current trick played from
HandBefore(i) == Append(hands[trick_log[i].seat], Trick[i])

C23_OpponentsPlayLegalCards ==
    /\ OpponentTurnsLegal(trick_log)
    /\ OpponentTurnsLegal(evaluated.log)
    /\ Len(trick_log) = Len(Trick)
    /\ \A i \in 1 .. Len(Trick) :
            (trick_log[i].seat # 0) =>
                IsValidPlayIn(HandBefore(i), SubSeq(Trick, 1, i - 1), Trick[i])

\* a seat other than the agent has followed suit with one of its two cards
\* while the other one was not allowed
C23_Witness ==
    /\ phase = 1
    /\ round_number = 2
    /\ \E i \in 2 .. Len(Trick) :
            /\ trick_log[i].seat # 0
            /\ Len(hands[trick_log[i].seat]) = 1
            /\ ~IsValidPlayIn(HandBefore(i), SubSeq(Trick, 1, i - 1),
                              hands[trick_log[i].seat][1])

(***************************************************************************)
(* C24  In every trick each seat plays exactly one card, in the order      *)
(* trick_leader, trick_leader + 1, ... (mod 4); a trick is evaluated only  *)
(* when it holds exactly four cards, and the seat that the evaluator       *)
(* attributes to its i-th card is the seat that played it.                 *)
(***************************************************************************)
\* the turns of the log were taken, in order, by the seats from leader on
InTurn(log, leader) ==
    \A i \in 1 .. Len(log) :
        log[i].played /\ log[i].seat = (leader + (i - 1)) % 4

C24_OneCardEachInTurn ==
    /\ Len(trick_log) <= 4
    /\ InTurn(trick_log, trick_leader)
    /\ (evaluated # NoTrick) =>
            /\ evaluated.size = 4
            /\ Len(evaluated.log) = 4
            /\ InTurn(evaluated.log, evaluated.leader)
            /\ \A i \in 1 .. 4 :
                    PlayerOf(evaluated.leader, i) = evaluated.log[i].seat

\* the last trick of round 2 was led by seat 2, the winner of the first,
\* and the agent played third in it
C24_Witness ==
    /\ call.kind = "step"
    /\ round_number = 3
    /\ evaluated # NoTrick
    /\ evaluated.leader = 2
    /\ evaluated.log[3].seat = 0

(***************************************************************************)
(* C25  The first trick of a round is led by round_starter and every later *)
(* trick by the winner of the trick before it; each trick adds exactly 1   *)
(* to its winner's tricks won and changes no other seat's count, so that   *)
(* the counts sum to r after the last trick of round r.                    *)
(***************************************************************************)
C25_LeadersAndTrickCounts ==
    [][(call'.kind = "step" /\ ~call'.raised /\ round_number <= MAX_ROUND) =>
            IF phase = 0
            THEN trick_leader' = round_starter /\ UNCHANGED player_tricks
            ELSE /\ evaluated'.leader = trick_leader
                 /\ IF RoundCloses
                    THEN Sum(player_tricks) + 1 = round_number
                    ELSE /\ trick_leader' = winner'
                         /\ player_tricks' =
                                [player_tricks EXCEPT ![winner'] = @ + 1]]_vars

\* the last trick of round 15 is to be played: 14 tricks are counted, won
\* by more than one seat, and the winner of the 14th leads
C25_Witness ==
    /\ round_number = 15
    /\ phase = 1
    /\ Sum(player_tricks) = 14
    /\ Len(hands[0]) = 1
    /\ trick_leader = winner
    /\ \E i \in Seats : player_tricks[i] \in 1 .. 13
    /\ trick_leader # round_starter

(***************************************************************************)
(* C26  At every observation returned in the Playing phase it is the       *)
(* agent's turn: position_in_trick is (4 - trick_leader) mod 4 and is the  *)
(* number of cards played into the current trick, and exactly the seats    *)
(* trick_leader..3 (none when the agent leads) have played.                *)
(***************************************************************************)
SeatsPlayed == {trick_log[i].seat : i \in {j \in 1 .. Len(trick_log) :
                                                trick_log[j].played}}

C26_AgentsTurn ==
    (phase = 1) =>
        /\ position_in_trick = (4 - trick_leader) % 4
        /\ position_in_trick = Len(Trick)
        /\ SeatsPlayed = IF trick_leader = 0 THEN {} ELSE trick_leader .. 3

\* seats 2 and 3 have played and the agent is third to play
C26_Witness ==
    /\ phase = 1
    /\ trick_leader = 2
    /\ position_in_trick = 2
    /\ Len(Trick) = 2
    /\ SeatsPlayed = {2, 3}

(***************************************************************************)
(* C27  At every observation returned by reset or by a step with           *)
(* done = false, valid_actions marks at least one action, and step accepts *)
(* every action that it marks.                                             *)
(***************************************************************************)
C27_MaskOffersAcceptedActions ==
    (call.kind \in {"reset", "step"} /\ ~call.done) =>
        /\ valid_actions # {}
        /\ \A a \in valid_actions : ~StepRaises(Env, a)

\* the agent is to play into a trick of three cards and the mask marks the
\* two cards that it holds
C27_Witness ==
    /\ call.kind = "step"
    /\ phase = 1
    /\ Len(Trick) = 3
    /\ Cardinality(valid_actions) = 2
    /\ valid_actions = Mask(hands[0])

(***************************************************************************)
(* C28  A game started by reset in which the agent always submits an       *)
(* accepted action reaches done = true: round r takes one bidding step and *)
(* r playing steps, so that every step brings the end of the game one step *)
(* nearer and round_number never decreases, and done is returned when no   *)
(* step is left.                                                           *)
(***************************************************************************)
\* the steps that the rounds r..MAX_ROUND take: 1 + k for round k
RECURSIVE StepsFrom(_)
StepsFrom(r) == IF r > MAX_ROUND THEN 0 ELSE (1 + r) + StepsFrom(r + 1)

\* the steps left in the game: those of the current round, a bid if it is
\* due and a play for each card the agent holds, and those of later rounds
StepsLeft ==
    IF round_number > MAX_ROUND THEN 0
    ELSE (IF phase = 0 THEN 1 + round_number ELSE Len(hands[0]))
            + StepsFrom(round_number + 1)

C28_GameTerminates ==
    /\ [][(call'.kind = "step" /\ ~call'.raised /\ round_number <= MAX_ROUND)
            => /\ StepsLeft' = StepsLeft - 1
               /\ round_number' >= round_number
               /\ call'.done = (StepsLeft' = 0)]_vars
    /\ [](CanPlayOn => CallerActions(Env) # {})
    /\ <>(call.done)

\* the 135th step of the game has returned done
C28_Witness ==
    /\ call.kind = "step"
    /\ call.done
    /\ StepsLeft = 0
    /\ player_scores # Zeros

=============================================================================
